---- MODULE Spec2Model ----
(***************************************************************************)
(* Streaming orchestration layer of chat-desktop (backend/app.py,          *)
(* backend/my_*.py, backend/mcp_client.py).                                *)
(*                                                                         *)
(* One request (chat_stream) fans a user message out to the requested      *)
(* backend adapters; every adapter is an async generator (one "source");   *)
(* merge_async_generators keeps one outstanding fetch task per live source *)
(* and yields the items in completion order.  All coroutines share the one *)
(* asyncio event-loop thread: a coroutine that performs a synchronous      *)
(* network call keeps the thread until the call returns.                   *)
(***************************************************************************)
EXTENDS Integers, Sequences, FiniteSets, TLC

\* ------------------------------------------------------------------ bounds
\* Requests served in one behaviour of Spec and of SpecTools.
MaxRequests == 1
\* Successive turns served in one behaviour of SpecTurns.
MaxTurns == 2
\* Text deltas a backend sends in one response stream.
MaxText == 1

\* Pieces of text in the argument string of the longest tool call of a stream.
MaxArgTokens == 3

\* Requests that are being served at the same time in SpecOverlap.
MaxInFlight == 2

\* ------------------------------------------------------- program constants
\* app.py: clients = {'llama': ..., 'anthropic': ..., 'openai': ...}
clients == {"llama", "anthropic", "openai"}

\* list(clients.keys()): insertion order of the dict literal
clients_keys == <<"llama", "anthropic", "openai">>

\* app.py: response_map
response_map == [c \in clients |->
                   CASE c = "llama" -> "response1"
                     [] c = "anthropic" -> "response2"
                     [] c = "openai" -> "response3"]

\* Adapters whose backend stream is read with a synchronous (thread-blocking)
\* iteration: `for chunk in stream` over the vendor SDK's blocking stream in
\* process_anthropic_stream and process_openai_stream.  process_llama_stream
\* reads with `async for` over aiohttp and suspends instead.
SyncBackend == {"anthropic", "openai"}

\* Adapters whose update_messages is a plain function that appends the user
\* message and then returns update_messages_with_mcp(...), which appends it
\* again when the generator is first resumed.
LegacyEntry == {"openai", "llama"}

\* ----------------------------------------------------------- request inputs
\* ChatRequestBody.windows: Optional[List[str]].  NoWindows stands for None.
NoWindows == [given |-> FALSE, ids |-> <<>>]

GivenWindows(ids) == [given |-> TRUE, ids |-> ids]

\* The window lists a caller sends: absent, empty, only unknown identifiers,
\* one backend, a backend with an unknown identifier, two backends.
WindowChoices ==
  { NoWindows,
    GivenWindows(<<>>),
    GivenWindows(<<"bogus">>),
    GivenWindows(<<"anthropic">>),
    GivenWindows(<<"bogus", "openai">>),
    GivenWindows(<<"llama", "anthropic">>) }

\* ChatRequestBody.message: the empty string or a text.
MessageChoices == {"", "hi"}

NoRequest == [message |-> "", windows |-> NoWindows]

\* ------------------------------------------------------------------- state
VARIABLES
  reqNo,          \* requests received so far
  req,            \* the request being served (ChatRequestBody)
  http,           \* "idle" | "rejected" (HTTP 400) | "accepted" | "streaming" |
                  \* "closed" | "aborted" (the caller stopped consuming)
  src,            \* active_windows: the client id of each source, by position
  messages,       \* per client: the Conversation (self.messages / conversation_history)
  is_connected,   \* per client: the adapter's connection flag
  pc,             \* per source: where its generator is parked or waiting
  full_response,  \* per source: get_mcp_response_stream's accumulator
  nText,          \* per source: deltas (text, or empty) received in the current stream
  nTools,         \* per source: tool calls dispatched in this turn
  buffer,         \* per source (llama): the rolling buffer holds unreleased text
  fetch,          \* per source: state of its anext_with_index task
  pending_tasks,  \* merge_async_generators: sources with a task in the dict
  produced,       \* per source: the envelopes process_client_messages yielded
  merged,         \* per source: its envelopes in the merged stream, in order
  failed,         \* per source: an unrecovered failure was raised in its turn
  loop,           \* the event-loop thread: LoopFree, or the source blocked in a sync call
  exhausted,      \* merge_async_generators: sources dropped from the live set
  context,        \* per source: the message list process_X_stream builds for its requests
  error_log,      \* per source: the exceptions its except clauses caught (logger.error)
  tool_input,     \* per source: the arguments given to call_tool
  pattern,        \* per source (llama): the buffer holds a complete tool-call pattern
  sent_calls,     \* fragment reassembly: the tool calls a response stream carries
  deltas,         \* fragment reassembly: the tool-call deltas still to arrive
  tool_calls_data,\* fragment reassembly: process_openai_stream's list of records
  cut,            \* per source: where its generator stood when the caller aborted
  turn,           \* per source: the number of the request whose message it serves
  connects,       \* per client: times mcp_brave_server.connect() has returned
  system_sent,    \* per source: the system prompt of its latest request to the backend
  llama_output,   \* buffer scan: the complete raw output of the backend, a text
  response_content, \* buffer scan: response.content, the lines still to arrive
  scan_buffer,    \* buffer scan: process_llama_stream's `buffer`
  scan_response,  \* buffer scan: process_llama_stream's `full_response`
  yielded,        \* buffer scan: what process_llama_stream has yielded, in order
  scan_pc,        \* buffer scan: where process_llama_stream stands
  follow_up_prompt, \* buffer scan: the prompt of the follow-up request
  call_count,     \* buffer scan: times call_tool was called
  follow_left     \* buffer scan: lines of the follow-up response still to arrive

\* What the tool-use state machines keep beside the Conversation.
toolVars == << context, error_log, tool_input, pattern, system_sent >>

\* The state of the fragment reassembly of one response stream.
fragVars == << sent_calls, deltas, tool_calls_data >>

\* The state of the scan of one response of the llama backend.
scanVars == << llama_output, response_content, scan_buffer, scan_response, yielded,
              scan_pc, follow_up_prompt, call_count, follow_left >>

vars == << reqNo, req, http, src, messages, is_connected, pc, full_response,
           nText, nTools, buffer, fetch, pending_tasks, produced, merged,
           failed, loop, exhausted, toolVars, fragVars, scanVars, cut,
                  turn, connects >>

\* The caller has not aborted the request.
NotCut == "-"

\* No coroutine occupies the event-loop thread.
LoopFree == 0

\* Source positions of the widest request (all configured clients).
Sources == 1..Len(clients_keys)

Live == 1..Len(src)

NoFetch == [st |-> "none"]

\* call_tool has not been called.
NoInput == [form |-> "none", value |-> ""]

Running == [st |-> "running"]

\* ---------------------------------------------------------------- messages
\* A piece of text: what it is (a text delta, a tool marker, an error text, a
\* user message, the system prompt) and a number telling pieces of one kind
\* apart.  A message content is a sequence of pieces (their concatenation).
Piece(kind, n) == [kind |-> kind, n |-> n]

\* {"role": role, "content": content}
Msg(role, content) == [role |-> role, content |-> content]

\* app.py: system_prompt
SystemPrompt == << Piece("system", 0) >>

\* The adapters' constructors: OpenaiClient starts its message list with the
\* system-prompt message; AnthropicClient and LlamaLocalClient start empty and
\* keep the prompt in self.system_prompt.
InitialMessages(c) ==
  IF c = "openai" THEN << Msg("system", SystemPrompt) >> ELSE << >>

\* The adapters and the merger before the first request.
InitStream ==
  /\ reqNo = 0
  /\ req = NoRequest
  /\ http = "idle"
  /\ src = << >>
  /\ messages = [c \in clients |-> InitialMessages(c)]
  /\ is_connected = [c \in clients |-> FALSE]
  /\ pc = [i \in Sources |-> "none"]
  /\ full_response = [i \in Sources |-> << >>]
  /\ nText = [i \in Sources |-> 0]
  /\ nTools = [i \in Sources |-> 0]
  /\ buffer = [i \in Sources |-> FALSE]
  /\ fetch = [i \in Sources |-> NoFetch]
  /\ pending_tasks = {}
  /\ produced = [i \in Sources |-> << >>]
  /\ merged = [i \in Sources |-> << >>]
  /\ failed = [i \in Sources |-> FALSE]
  /\ loop = LoopFree
  /\ exhausted = {}
  /\ context = [i \in Sources |-> << >>]
  /\ system_sent = [i \in Sources |-> << >>]
  /\ error_log = [i \in Sources |-> << >>]
  /\ tool_input = [i \in Sources |-> NoInput]
  /\ pattern = [i \in Sources |-> FALSE]
  /\ cut = [i \in Sources |-> NotCut]
  /\ turn = [i \in Sources |-> 0]
  /\ connects = [c \in clients |-> 0]

\* No response stream with tool-call deltas is being reassembled.
InitFrag ==
  /\ sent_calls = << >>
  /\ deltas = << >>
  /\ tool_calls_data = << >>

\* No response of the llama backend is being scanned at character level.
InitScan ==
  /\ llama_output = << >>
  /\ response_content = << >>
  /\ scan_buffer = << >>
  /\ scan_response = << >>
  /\ yielded = << >>
  /\ scan_pc = "idle"
  /\ follow_up_prompt = << >>
  /\ call_count = 0
  /\ follow_left = 0

Init == InitStream /\ InitFrag /\ InitScan

\* ------------------------------------------------------------- chat_stream
RECURSIVE Filter(_, _)
\* [w for w in ws if w in S]
Filter(ws, S) ==
  IF ws = << >> THEN << >>
  ELSE (IF Head(ws) \in S THEN << Head(ws) >> ELSE << >>) \o Filter(Tail(ws), S)

\* `if req.windows:` is true for a non-empty list only (None and [] are falsy).
WindowsTruthy(w) == w.given /\ w.ids # << >>

\* chat_stream, lines 64-69: active_windows.
ActiveWindows(w) ==
  IF WindowsTruthy(w) THEN Filter(w.ids, clients) ELSE clients_keys

\* Mutant of Validate: the check of the filtered window list is missing.
ValidateLenient(r) == IF r.message = "" THEN "rejected" ELSE "accepted"

\* chat_stream up to its return: HTTPException(400) for an empty message
\* (line 60) or for a non-empty window list without a valid id (line 66),
\* else a StreamingResponse over generate().
Validate(r) ==
  IF r.message = "" THEN "rejected"
  ELSE IF WindowsTruthy(r.windows) /\ ActiveWindows(r.windows) = << >> THEN "rejected"
  ELSE "accepted"

PerTurnReset ==
  /\ pc' = [i \in Sources |-> "none"]
  /\ full_response' = [i \in Sources |-> << >>]
  /\ nText' = [i \in Sources |-> 0]
  /\ nTools' = [i \in Sources |-> 0]
  /\ buffer' = [i \in Sources |-> FALSE]
  /\ fetch' = [i \in Sources |-> NoFetch]
  /\ produced' = [i \in Sources |-> << >>]
  /\ merged' = [i \in Sources |-> << >>]
  /\ failed' = [i \in Sources |-> FALSE]
  /\ exhausted' = {}
  /\ pending_tasks' = {}
  /\ context' = [i \in Sources |-> << >>]
  /\ system_sent' = [i \in Sources |-> << >>]
  /\ error_log' = [i \in Sources |-> << >>]
  /\ tool_input' = [i \in Sources |-> NoInput]
  /\ pattern' = [i \in Sources |-> FALSE]
  /\ cut' = [i \in Sources |-> NotCut]
  /\ turn' = [i \in Sources |-> reqNo']

\* A request arrives when no other is being served; limit bounds the run.
ChatStream(m, w, limit) ==
  /\ http \in {"idle", "rejected", "closed"}
  /\ reqNo < limit
  /\ reqNo' = reqNo + 1
  /\ req' = [message |-> m, windows |-> w]
  /\ http' = Validate(req')
  /\ src' = IF Validate(req') = "accepted" THEN ActiveWindows(w) ELSE << >>
  /\ PerTurnReset
  /\ UNCHANGED << messages, is_connected, loop, fragVars, scanVars, connects >>

\* A request arrives while the response of an earlier one is still streaming:
\* chat_stream, generate and the first loop of merge_async_generators run for
\* it on the same event loop and against the same `clients`.  Its sources take
\* the next positions of src; pending_tasks holds the tasks of every merger
\* that is running, and req stays the first request.  The tasks created for
\* the earlier request are first resumed before the handler of a later one
\* runs (the loop runs what is ready before what arrives).
ChatStreamOverlap(w) ==
  LET r == [message |-> "hi", windows |-> w]
      new == (Len(src) + 1)..(Len(src) + Len(ActiveWindows(w)))
  IN /\ http = "streaming"
     /\ loop = LoopFree
     /\ reqNo < MaxInFlight
     /\ \A i \in Live : pc[i] # "new"
     /\ Validate(r) = "accepted"
     /\ new \subseteq Sources
     /\ reqNo' = reqNo + 1
     /\ src' = src \o ActiveWindows(w)
     /\ pc' = [i \in Sources |-> IF i \in new THEN "new" ELSE pc[i]]
     /\ fetch' = [i \in Sources |-> IF i \in new THEN Running ELSE fetch[i]]
     /\ pending_tasks' = pending_tasks \cup new
     /\ turn' = [i \in Sources |-> IF i \in new THEN reqNo + 1 ELSE turn[i]]
     /\ UNCHANGED << req, http, messages, is_connected, full_response, nText,
                     nTools, buffer, produced, merged, failed, loop, exhausted,
                     toolVars, fragVars, scanVars, cut, connects >>

\* chat_stream.generate + the first loop of merge_async_generators: one
\* process_client_messages generator per active window, and one
\* anext_with_index task for each of them.
Generate ==
  /\ http = "accepted"
  /\ loop = LoopFree
  /\ http' = "streaming"
  /\ pc' = [i \in Sources |-> IF i \in Live THEN "new" ELSE "none"]
  /\ fetch' = [i \in Sources |-> IF i \in Live THEN Running ELSE NoFetch]
  /\ pending_tasks' = Live
  /\ UNCHANGED << reqNo, req, src, messages, is_connected, full_response, nText,
                  nTools, buffer, produced, merged, failed, loop, exhausted,
                  toolVars, fragVars, scanVars, cut,
                  turn, connects >>

\* --------------------------------------------------------- adapter plumbing
\* Tool calls the llama adapter dispatches in one turn (its scan of the buffer
\* can match again after a failed call).
MaxToolCalls == 2

\* The user message of the request source i serves.
UserMessageOf(i) == Msg("user", << Piece("user", turn[i]) >>)

\* Mutant of format_sse_message: every envelope carries the first label.
format_sse_message_one_label(client_id, chunk) ==
  [model |-> response_map["llama"], chunk |-> chunk]

\* format_sse_message: the envelope carries response_map[client_id].
format_sse_message(client_id, chunk) ==
  [model |-> response_map[client_id], chunk |-> chunk]

\* The wait of source i at position p holds the event-loop thread: the vendor
\* SDK streams of the anthropic and openai adapters are read synchronously.
Blocking(c, p) == c \in SyncBackend /\ p \in {"recv1", "recv2", "recvF"}

\* The generator of source i yields a chunk of the given kind and parks at
\* position p.  A chunk that passes the loop of get_mcp_response_stream is
\* added to full_response (into = TRUE); app is appended to the Conversation.
GenYield(i, kind, p, into, app) ==
  LET c == src[i]
      ch == Piece(kind, Len(produced[i]) + 1)
      env == format_sse_message(c, ch)
  IN /\ pc' = [pc EXCEPT ![i] = p]
     /\ full_response' = IF into THEN [full_response EXCEPT ![i] = Append(@, ch)]
                                 ELSE full_response
     /\ produced' = [produced EXCEPT ![i] = Append(@, env)]
     /\ fetch' = [fetch EXCEPT ![i] = [st |-> "item", item |-> env]]
     /\ messages' = [messages EXCEPT ![c] = @ \o app]
     /\ loop' = LoopFree

\* The generator of source i runs on to a network or tool wait at position p.
GenWait(i, p, app) ==
  LET c == src[i]
  IN /\ pc' = [pc EXCEPT ![i] = p]
     /\ messages' = [messages EXCEPT ![c] = @ \o app]
     /\ loop' = IF Blocking(c, p) THEN i ELSE LoopFree
     /\ UNCHANGED << full_response, produced, fetch >>

\* The generator of source i returns: anext raises StopAsyncIteration.
GenEnd(i, app) ==
  LET c == src[i]
  IN /\ pc' = [pc EXCEPT ![i] = "ended"]
     /\ messages' = [messages EXCEPT ![c] = @ \o app]
     /\ fetch' = [fetch EXCEPT ![i] = [st |-> "stop"]]
     /\ loop' = LoopFree
     /\ UNCHANGED << full_response, produced >>

\* Mutant of Finish: the message list is rebuilt from the response alone.
FinishRebuilds(i) ==
  /\ pc' = [pc EXCEPT ![i] = "ended"]
  /\ messages' = [messages EXCEPT ![src[i]] = << Msg("assistant", full_response[i]) >>]
  /\ fetch' = [fetch EXCEPT ![i] = [st |-> "stop"]]
  /\ loop' = LoopFree
  /\ UNCHANGED << full_response, produced >>

\* Mutant of Finish: the generators return without the assistant message.
FinishSilent(i) == GenEnd(i, << >>)

\* get_mcp_response_stream, normal completion: the complete response is
\* appended as the assistant message and the generators return.
Finish(i) == GenEnd(i, << Msg("assistant", full_response[i]) >>)

\* Mutant of OuterError: the error text is appended but never yielded.
OuterErrorSilent(i) ==
  /\ GenEnd(i, << Msg("assistant", << Piece("error", Len(produced[i]) + 1) >>) >>)
  /\ failed' = [failed EXCEPT ![i] = TRUE]

\* Mutant of OuterError: the error text is yielded but not put in the history.
OuterErrorNoHistory(i) ==
  /\ GenYield(i, "error", "y_error", FALSE, << >>)
  /\ failed' = [failed EXCEPT ![i] = TRUE]

\* get_mcp_response_stream, `except Exception`: the error text is appended as
\* an assistant message and yielded.
OuterError(i) ==
  /\ GenYield(i, "error", "y_error", FALSE,
              << Msg("assistant", << Piece("error", Len(produced[i]) + 1) >>) >>)
  /\ failed' = [failed EXCEPT ![i] = TRUE]

\* Mutant of InnerError: the error text is yielded inside the loop over the
\* stream, which then goes on.
InnerErrorGoesOn(i) ==
  /\ GenYield(i, "error", "y_text1", TRUE, << >>)
  /\ failed' = [failed EXCEPT ![i] = TRUE]

\* process_openai_stream, `except Exception` without a fallback: the error text
\* is yielded as one more chunk of the stream.
InnerError(i) ==
  /\ GenYield(i, "error", "y_err_in", TRUE, << >>)
  /\ failed' = [failed EXCEPT ![i] = TRUE]

\* update_messages: the user message is appended once by AnthropicClient, and
\* twice by OpenaiClient and LlamaLocalClient (update_messages, then
\* update_messages_with_mcp).
UserAppends(i) ==
  IF src[i] \in LegacyEntry THEN << UserMessageOf(i), UserMessageOf(i) >>
                            ELSE << UserMessageOf(i) >>

\* process_query_stream up to the first wait: the anthropic and openai adapters
\* open the vendor stream, the llama adapter first awaits
\* mcp_brave_server.connect() for the tool list.
FirstWait(c) == IF c = "llama" THEN "tools_info" ELSE "recv1"

\* The system prompt process_llama_stream sends: the adapter's prompt and the
\* list of the tools (lines 569-582).
EnhancedSystemPrompt == SystemPrompt \o << Piece("tools_info", 0) >>

\* The message list process_X_stream starts with: `messages` (lines 185 and
\* 347-350) or `conversation` (lines 585-588).  It is built from the query and
\* the system prompt, not from the adapter's Conversation.
InitialContext(i) ==
  LET c == src[i]
  IN CASE c = "anthropic" -> << UserMessageOf(i) >>
       [] c = "openai" -> << Msg("system", SystemPrompt), UserMessageOf(i) >>
       [] c = "llama" -> << Msg("system", EnhancedSystemPrompt), UserMessageOf(i) >>

\* anthropic, line 301: the system prompt of the continuation request.
AfterToolSystemPrompt == << Piece("system", 1) >>

\* Mutant of SystemFor: the continuation is sent with the first prompt.
SystemForSame(c, p) == IF c = "llama" THEN EnhancedSystemPrompt ELSE SystemPrompt

\* The system prompt of the request whose stream is read at position p.
\*   anthropic: `system=system_prompt` (line 191), and for the continuation
\*              `system=after_tool_system_prompt` (line 304);
\*   openai: the first message of `messages` in every request (lines 347-350;
\*           the after_tool_system_prompt of line 482 is not used);
\*   llama: the enhanced prompt, which full_prompt and follow_up_prompt begin
\*          with (lines 590, 687).
SystemFor(c, p) ==
  CASE c = "llama" -> EnhancedSystemPrompt
    [] c = "anthropic" /\ p = "recv2" -> AfterToolSystemPrompt
    [] OTHER -> SystemPrompt

\* system_sent once source i has run on to the wait at position p.
SystemAt(i, p) ==
  IF p \in {"recv1", "recv2"} THEN [system_sent EXCEPT ![i] = SystemFor(src[i], p)]
                              ELSE system_sent

\* context once source i has run on to the wait at position p: the list is
\* built right before the first request to the backend.
ContextAt(i, p) ==
  IF p = "recv1" THEN [context EXCEPT ![i] = InitialContext(i)] ELSE context

\* The assistant message that carries the n-th tool call of the turn.
ToolCallMessage(n) == Msg("assistant", << Piece("tool_call", n) >>)

\* The message that carries the result of the n-th tool call: a user message
\* with a tool_result block (anthropic), a tool message (openai, llama).
ToolResultMessage(c, n) ==
  Msg(IF c = "anthropic" THEN "user" ELSE "tool", << Piece("tool_result", n) >>)

\* An exception caught at position `at` of the generator; the outcome tells
\* whether its text contains "tools".
Raised(at, o) == [at |-> at, text |-> IF o = "fail_tools" THEN "tools" ELSE "plain"]

\* The argument texts a backend sends with a tool call: a JSON object, or a
\* text that json.loads rejects.
GoodJson == "{\"query\": \"x\"}"

BadJson == "{\"query\": "

ValidJson == {GoodJson}

RawArguments(o) == IF o = "tool_raw" THEN BadJson ELSE GoodJson

\* Mutant of ParseArguments: a text that does not parse is dropped.
ParseArgumentsDrops(raw) ==
  IF raw \in ValidJson THEN [form |-> "parsed", value |-> raw]
                        ELSE [form |-> "wrapped", value |-> ""]

\* Lines 430-433 (and 242-246): json.loads of the argument text, and on
\* JSONDecodeError the payload {"query": <the text>}.
ParseArguments(raw) ==
  IF raw \in ValidJson THEN [form |-> "parsed", value |-> raw]
                        ELSE [form |-> "wrapped", value |-> raw]

\* Mutant of Connected: one connection and tool list shared by every adapter.
ConnectedShared(c) == [d \in clients |-> connects[d] + 1]

\* mcp_brave_server.connect() returns for client c (lines 47-74): a new server
\* process and session are set up and the tool list is loaded from it, which
\* MCPClient.connect turns into the adapter's tool lists (lines 78-102).  The
\* tool list of a client is the one its latest connect loaded.
Connected(c) == [connects EXCEPT ![c] = @ + 1]

\* A task may run: the anext task of source i was created and has not
\* completed, and the event-loop thread is free, or held by i itself.  Nothing
\* cancels the task when the merger is abandoned.
CanRun(i) ==
  /\ http \in {"streaming", "aborted"}
  /\ i \in Live
  /\ fetch[i].st = "running"
  /\ loop = IF Blocking(src[i], pc[i]) THEN i ELSE LoopFree

\* First resumption of the generator: process_client_messages calls
\* update_messages, get_mcp_response_stream calls connect_mcp.
Start(i) ==
  /\ CanRun(i)
  /\ pc[i] = "new"
  /\ LET p == IF is_connected[src[i]] THEN FirstWait(src[i]) ELSE "connect"
     IN /\ GenWait(i, p, UserAppends(i))
        /\ context' = ContextAt(i, p)
        /\ system_sent' = SystemAt(i, p)
  /\ UNCHANGED << reqNo, req, http, src, is_connected, nText, nTools, buffer,
                  pending_tasks, merged, failed, exhausted, error_log,
                  tool_input, pattern, fragVars, scanVars, cut,
                  turn, connects >>

\* Mutant of Connect: the connection flag is set before the outcome is known.
ConnectFlagFirst(i, ok) ==
  /\ CanRun(i)
  /\ pc[i] = "connect"
  /\ IF ok
       THEN /\ is_connected' = [is_connected EXCEPT ![src[i]] = TRUE]
            /\ connects' = Connected(src[i])
            /\ GenWait(i, FirstWait(src[i]), << >>)
            /\ context' = ContextAt(i, FirstWait(src[i]))
            /\ system_sent' = SystemAt(i, FirstWait(src[i]))
            /\ UNCHANGED << failed, error_log >>
       ELSE /\ OuterError(i)
            /\ error_log' = [error_log EXCEPT ![i] = Append(@, Raised("connect", "fail"))]
            /\ is_connected' = [is_connected EXCEPT ![src[i]] = TRUE]
            /\ UNCHANGED << connects, context, system_sent >>
  /\ UNCHANGED << reqNo, req, http, src, nText, nTools, buffer,
                  pending_tasks, merged, exhausted, tool_input, pattern, fragVars, scanVars, cut,
                  turn >>

\* connect_mcp: mcp_client.connect() returns, or raises.
Connect(i, ok) ==
  /\ CanRun(i)
  /\ pc[i] = "connect"
  /\ IF ok
       THEN /\ is_connected' = [is_connected EXCEPT ![src[i]] = TRUE]
            /\ connects' = Connected(src[i])
            /\ GenWait(i, FirstWait(src[i]), << >>)
            /\ context' = ContextAt(i, FirstWait(src[i]))
            /\ system_sent' = SystemAt(i, FirstWait(src[i]))
            /\ UNCHANGED << failed, error_log >>
       ELSE /\ OuterError(i)
            /\ error_log' = [error_log EXCEPT ![i] = Append(@, Raised("connect", "fail"))]
            /\ UNCHANGED << is_connected, connects, context, system_sent >>
  /\ UNCHANGED << reqNo, req, http, src, nText, nTools, buffer,
                  pending_tasks, merged, exhausted, tool_input, pattern, fragVars, scanVars, cut,
                  turn >>

\* What a backend stream can deliver next, per adapter and stream.
\*   text       a text delta (released text, for llama)
\*   empty      a delta or line whose text is the empty string
\*   hold       llama: content that stays in the rolling buffer (<= 50 chars)
\*   tool       the indication of a tool call (anthropic: message_stop with
\*              stop_reason tool_use; openai: end of a stream that carried
\*              tool-call fragments; llama: the textual pattern with valid JSON);
\*              in the stream of the continuation request the loops look at
\*              text only (lines 311-318, 490-495, 699-710)
\*   end        end of the stream without a tool call
\*   fail       the call or the stream raises
\*   fail_tools openai: it raises and the error text contains "tools"
\*   tool_raw   openai: a tool call whose argument text is not JSON
\*   fail_release llama: it raises while more than 50 characters are buffered;
\*              the 25 characters released leave the tool-call pattern whole
\*   fail_cut   llama: as fail_release, and the 25 characters released take
\*              the beginning of the tool-call pattern with them
RecvOutcomes(c, p) ==
  CASE p = "recv1" ->
         {"text", "empty", "tool", "end", "fail"}
           \cup (IF c = "openai" THEN {"fail_tools", "tool_raw"} ELSE {})
           \cup (IF c = "llama" THEN {"hold"} ELSE {})
    [] p = "recv2" ->
         {"text", "empty", "tool", "end", "fail"}
           \cup (IF c = "openai" THEN {"fail_tools"} ELSE {})
           \cup (IF c = "llama" THEN {"fail_release", "fail_cut"} ELSE {})
    [] p = "recvF" -> {"text", "empty", "end", "fail", "fail_tools"}
    [] OTHER -> {}

\* Mutant of IsTruthy: every chunk passes.
IsTruthyAlways(kind) == TRUE

\* `if text:` in get_mcp_response_stream (my_anthropic.py line 66) and the
\* tests of the delta content in process_openai_stream and process_llama_stream
\* (lines 384, 490, 705): the empty string does not pass.
IsTruthy(kind) == kind # "empty"

\* The position at which a text delta of stream p is yielded.
TextYield(p) ==
  CASE p = "recv1" -> "y_text1" [] p = "recv2" -> "y_text2" [] p = "recvF" -> "y_textF"

\* llama, lines 717-726: the exception of a tool call or of the follow-up
\* request is logged; 25 characters are released if more than 50 are buffered,
\* and the loop over the original response goes on.
LlamaGoOn(i, release) ==
  IF release THEN GenYield(i, "text", "y_text1", TRUE, << >>)
             ELSE GenWait(i, "recv1", << >>)

\* Mutant of OnBackendFailure: process_openai_stream retries without tools
\* whatever the text of the failure is.
OnBackendFailureRetriesAll(i, o) ==
  LET c == src[i]
  IN CASE c = "anthropic" -> OuterError(i)
       [] c = "openai" ->
            IF pc[i] # "recvF"
              THEN GenWait(i, "recvF", << >>) /\ UNCHANGED failed
              ELSE InnerError(i)
       [] c = "llama" ->
            IF pc[i] = "recv2"
              THEN LlamaGoOn(i, o \in {"fail_release", "fail_cut"}) /\ UNCHANGED failed
              ELSE OuterError(i)

\* A failure inside process_X_stream while the backend is called or read.
\*   anthropic: nothing catches it below get_mcp_response_stream;
\*   openai: process_openai_stream's except clause starts the fallback stream
\*           when the text mentions "tools" (not from the fallback itself),
\*           else yields the error;
\*   llama: a failure of the first request leaves process_llama_stream; one of
\*          the follow-up request is caught at line 717 and the scan of the
\*          original response goes on.
OnBackendFailure(i, o) ==
  LET c == src[i]
  IN CASE c = "anthropic" -> OuterError(i)
       [] c = "openai" ->
            IF o = "fail_tools" /\ pc[i] # "recvF"
              THEN GenWait(i, "recvF", << >>) /\ UNCHANGED failed
              ELSE InnerError(i)
       [] c = "llama" ->
            IF pc[i] = "recv2"
              THEN LlamaGoOn(i, o \in {"fail_release", "fail_cut"}) /\ UNCHANGED failed
              ELSE OuterError(i)

\* The text of source i's rolling buffer (llama only) is not empty once
\* content has arrived: a release keeps more than 25 characters back.
BufferAfter(i) == [buffer EXCEPT ![i] = (src[i] = "llama") \/ @]

\* End of a backend stream without a tool call.  The llama adapter yields what
\* is left in its buffer first (lines 731-735), also after a continuation.
OnStreamEnd(i) ==
  IF src[i] = "llama" /\ buffer[i]
    THEN GenYield(i, "text", "y_flush", TRUE, << >>)
    ELSE Finish(i)

\* llama, lines 721-723: the pattern in the buffer after an exception was
\* caught; releasing the first 25 characters can take its beginning away.
PatternAfter(i, o) == [pattern EXCEPT ![i] = @ /\ o # "fail_cut"]

\* The backend of source i delivers its next outcome and the generator runs on.
\* llama scans its whole buffer at every line (line 625): while the buffer holds
\* a complete pattern, whatever line arrives in the first stream is a tool call.
Recv(i, o) ==
  /\ CanRun(i)
  /\ o \in RecvOutcomes(src[i], pc[i])
  /\ CASE o = "text" ->
            /\ nText[i] < MaxText
            /\ pc[i] = "recv1" => ~pattern[i]
            /\ GenYield(i, "text", TextYield(pc[i]), TRUE, << >>)
            /\ nText' = [nText EXCEPT ![i] = @ + 1]
            /\ buffer' = BufferAfter(i)
            /\ UNCHANGED << nTools, failed, toolVars >>
       [] o = "empty" ->
            /\ nText[i] < MaxText
            /\ pc[i] = "recv1" => ~pattern[i]
            /\ IF IsTruthy(o)
                 THEN GenYield(i, o, TextYield(pc[i]), TRUE, << >>)
                 ELSE GenWait(i, pc[i], << >>)
            /\ nText' = [nText EXCEPT ![i] = @ + 1]
            /\ UNCHANGED << nTools, buffer, failed, toolVars >>
       [] o = "hold" ->
            /\ ~buffer[i]
            /\ GenWait(i, "recv1", << >>)
            /\ buffer' = BufferAfter(i)
            /\ UNCHANGED << nText, nTools, failed, toolVars >>
       [] o = "tool" /\ pc[i] = "recv2" ->
            /\ IF src[i] = "llama"
                 THEN /\ nText[i] < MaxText
                      /\ GenYield(i, "text", "y_text2", TRUE, << >>)
                      /\ nText' = [nText EXCEPT ![i] = @ + 1]
                 ELSE /\ OnStreamEnd(i)
                      /\ UNCHANGED nText
            /\ UNCHANGED << nTools, buffer, failed, toolVars >>
       [] o \in {"tool", "tool_raw"} /\ pc[i] = "recv1" ->
            /\ nTools[i] < MaxToolCalls
            /\ GenYield(i, "invoked", "y_invoked", TRUE, << >>)
            /\ nTools' = [nTools EXCEPT ![i] = @ + 1]
            /\ buffer' = BufferAfter(i)
            /\ context' = IF src[i] = "llama" THEN context
                           ELSE [context EXCEPT ![i] = Append(@, ToolCallMessage(nTools[i] + 1))]
            /\ tool_input' = [tool_input EXCEPT ![i] = ParseArguments(RawArguments(o))]
            /\ pattern' = [pattern EXCEPT ![i] = (src[i] = "llama")]
            /\ UNCHANGED << nText, failed, error_log, system_sent >>
       [] o = "end" ->
            /\ OnStreamEnd(i)
            /\ UNCHANGED << nText, nTools, buffer, failed, toolVars >>
       [] o \in {"fail", "fail_tools", "fail_release", "fail_cut"} ->
            /\ OnBackendFailure(i, o)
            /\ nText' = [nText EXCEPT ![i] = 0]
            /\ error_log' = [error_log EXCEPT ![i] = Append(@, Raised(pc[i], o))]
            /\ pattern' = PatternAfter(i, o)
            /\ UNCHANGED << nTools, buffer, context, tool_input, system_sent >>
  /\ UNCHANGED << reqNo, req, http, src, is_connected, pending_tasks, merged,
                  exhausted, fragVars, scanVars, cut,
                  turn, connects >>

\* llama, line 565: `await self.mcp_brave_server.connect()` for the tool list,
\* then the first request is posted.
ToolsInfo(i, ok) ==
  /\ CanRun(i)
  /\ pc[i] = "tools_info"
  /\ IF ok THEN /\ GenWait(i, "recv1", << >>)
                /\ connects' = Connected(src[i])
                /\ context' = ContextAt(i, "recv1")
                /\ system_sent' = SystemAt(i, "recv1")
                /\ UNCHANGED << failed, error_log >>
           ELSE /\ OuterError(i)
                /\ error_log' = [error_log EXCEPT ![i] = Append(@, Raised("tools_info", "fail"))]
                /\ UNCHANGED << connects, context, system_sent >>
  /\ UNCHANGED << reqNo, req, http, src, is_connected, nText, nTools, buffer,
                  pending_tasks, merged, exhausted, tool_input, pattern, fragVars, scanVars, cut,
                  turn >>

\* call_tool raises.
\*   anthropic: the exception leaves process_anthropic_stream;
\*   openai: as for a backend failure (fallback stream or error chunk);
\*   llama: caught at line 717, the scan of the original response goes on.
OnToolFailure(i, o) ==
  LET c == src[i]
  IN CASE c = "anthropic" -> OuterError(i)
       [] c = "openai" ->
            IF o = "fail_tools" THEN GenWait(i, "recvF", << >>) /\ UNCHANGED failed
                                ELSE InnerError(i)
       [] c = "llama" ->
            LlamaGoOn(i, o \in {"fail_release", "fail_cut"}) /\ UNCHANGED failed

ToolOutcomes(c) ==
  {"ok", "fail"}
    \cup (IF c = "openai" THEN {"fail_tools"} ELSE {})
    \cup (IF c = "llama" THEN {"fail_release", "fail_cut"} ELSE {})

\* mcp_brave_server.call_tool returns or raises.
ToolReturn(i, o) ==
  /\ CanRun(i)
  /\ pc[i] = "tool"
  /\ o \in ToolOutcomes(src[i])
  /\ IF o = "ok"
       THEN /\ GenYield(i, "result", "y_result", TRUE, << >>)
            /\ UNCHANGED << failed, error_log, pattern >>
       ELSE /\ OnToolFailure(i, o)
            /\ error_log' = [error_log EXCEPT ![i] = Append(@, Raised("tool", o))]
            /\ pattern' = PatternAfter(i, o)
  /\ nText' = [nText EXCEPT ![i] = 0]
  /\ UNCHANGED << reqNo, req, http, src, is_connected, nTools, buffer,
                  pending_tasks, merged, exhausted, context, tool_input,
                  system_sent, fragVars, scanVars, cut,
                  turn, connects >>

\* Where the generator goes when it is resumed at a yield.
\*   after a text delta: the next chunk of the same stream;
\*   after the tool marker: `await call_tool`;
\*   after the result marker: the continuation request;
\*   after an error text or the flushed buffer: it returns.
AfterYield(p) ==
  CASE p = "y_text1" -> "recv1"
    [] p = "y_text2" -> "recv2"
    [] p = "y_textF" -> "recvF"
    [] p = "y_invoked" -> "tool"
    [] p = "y_result" -> "recv2"
    [] OTHER -> "ended"

\* Lines 288-297, 475-479 and 683-684: once the result marker was taken, the
\* result message is appended to the list of the continuation request; llama
\* appends the assistant message with the buffer and the result together.
ContextAfterResult(i) ==
  LET c == src[i]
      n == nTools[i]
  IN IF c = "llama"
       THEN context[i] \o << ToolCallMessage(n), ToolResultMessage(c, n) >>
       ELSE Append(context[i], ToolResultMessage(c, n))

\* A new anext task resumes the generator of source i at its yield.
Resume(i) ==
  /\ CanRun(i)
  /\ pc[i] \in {"y_text1", "y_text2", "y_textF", "y_invoked", "y_result",
                "y_error", "y_err_in", "y_flush"}
  /\ CASE pc[i] = "y_error" -> GenEnd(i, << >>)
       [] pc[i] \in {"y_err_in", "y_flush"} -> Finish(i)
       [] OTHER -> GenWait(i, AfterYield(pc[i]), << >>)
  /\ context' = IF pc[i] = "y_result"
                  THEN [context EXCEPT ![i] = ContextAfterResult(i)]
                  ELSE context
  /\ system_sent' = SystemAt(i, AfterYield(pc[i]))
  /\ UNCHANGED << reqNo, req, http, src, is_connected, nText, nTools, buffer,
                  pending_tasks, merged, failed, exhausted, error_log,
                  tool_input, pattern, fragVars, scanVars, cut,
                  turn, connects >>

\* ------------------------------------------------- merge_async_generators
\* A completed task of source i is in `done`.
Done(i) == i \in pending_tasks /\ fetch[i].st \in {"item", "stop", "exc"}

\* The merger can take the completed task of source i: it runs on the
\* event-loop thread like every coroutine.
CanEmit(i) == http = "streaming" /\ Done(i) /\ loop = LoopFree

\* Mutant of Emit: the item is put in front of what was merged before.
EmitFront(out, item) == << item >> \o out

\* Lines 139-142: `if item: yield item` puts the item at the end of the
\* merged stream.
Emit(out, item) == Append(out, item)

\* Mutant of NextFetch: a new task is scheduled after the end of the sequence.
NextFetchAfterStop(st) == IF st \in {"item", "stop"} THEN Running ELSE NoFetch

\* Mutant of NextFetch: a new task is scheduled whatever the old one returned.
NextFetchAlways(st) == Running

\* Lines 144-152: the task that follows a task that ended in state st.  Only a
\* task that returned an item is followed by a new anext task of its source.
NextFetch(st) == IF st = "item" THEN Running ELSE NoFetch

\* Mutant of Remaining: a source whose task raised stays in the dict.
RemainingKeeps(pt, i, st) == pt

\* Mutant of Remaining: the first source that ends takes every task with it.
RemainingAbort(pt, i, st) == IF st = "item" THEN pt ELSE {}

\* Lines 136-152: pending_tasks after the task of source i, which ended in
\* state st, was popped: the source stays (its next task is put in the dict)
\* unless the task raised StopAsyncIteration or another exception.
Remaining(pt, i, st) == IF st = "item" THEN pt ELSE pt \ {i}

\* Lines 136-152 for one task of `done`: the task is popped; with an item, the
\* item is yielded and the next anext task of the source is scheduled; on
\* StopAsyncIteration, or on any other exception (logged), nothing is
\* scheduled and the source has left the live set.
MergeTask(i) ==
  /\ CanEmit(i)
  /\ merged' = IF fetch[i].st = "item"
                 THEN [merged EXCEPT ![i] = Emit(@, fetch[i].item)]
                 ELSE merged
  /\ fetch' = [fetch EXCEPT ![i] = NextFetch(fetch[i].st)]
  /\ pending_tasks' = Remaining(pending_tasks, i, fetch[i].st)
  /\ exhausted' = IF fetch[i].st = "item" THEN exhausted ELSE exhausted \cup {i}
  /\ UNCHANGED << reqNo, req, http, src, messages, is_connected, pc,
                  full_response, nText, nTools, buffer, produced, failed, loop,
                  toolVars, fragVars, scanVars, cut,
                  turn, connects >>

\* Line 127: `while pending_tasks:` ends, generate() returns and the response
\* is complete.
MergeEnd ==
  /\ http = "streaming"
  /\ loop = LoopFree
  /\ pending_tasks = {}
  /\ http' = "closed"
  /\ UNCHANGED << reqNo, req, src, messages, is_connected, pc, full_response,
                  nText, nTools, buffer, fetch, pending_tasks, produced, merged,
                  failed, loop, exhausted, toolVars, fragVars, scanVars, cut,
                  turn, connects >>

\* ------------------------------------- process_openai_stream: reassembly
\* A tool call as the backend means it: id, type, function name and the
\* argument string (a sequence of pieces of text).
ToolCall(id, name, arguments) ==
  [id |-> id, type |-> "function", name |-> name, arguments |-> arguments]

\* The tool calls of the response streams considered: one call, or two calls
\* whose argument strings differ in content and length.
CallChoices ==
  LET first == ToolCall("call_a", "search", [k \in 1..MaxArgTokens |-> k])
      second == ToolCall("call_b", "fetch", [k \in 1..(MaxArgTokens - 1) |-> 10 + k])
  IN { << first >>, << first, second >> }

RECURSIVE Compositions(_)
\* The ways to cut the string s into non-empty consecutive chunks.
Compositions(s) ==
  IF s = << >> THEN { << >> }
  ELSE UNION { { << SubSeq(s, 1, k) >> \o r : r \in Compositions(SubSeq(s, k + 1, Len(s))) }
               : k \in 1..Len(s) }

\* The deltas a backend can send for the call of one index (lines 393-394):
\* the first carries id, type and name with the first chunk of the argument
\* string or none of it, the following ones carry one more chunk each.
Fragments(call, index) ==
  LET splits == Compositions(call.arguments)
                \cup { << << >> >> \o r : r \in Compositions(call.arguments) }
  IN { [k \in 1..Len(split) |->
          IF k = 1
            THEN [index |-> index, id |-> call.id, type |-> call.type,
                  name |-> call.name, arguments |-> split[1]]
            ELSE [index |-> index, id |-> "", type |-> "",
                  name |-> "", arguments |-> split[k]]]
       : split \in splits \ { << >> } }

RECURSIVE Interleavings(_, _)
\* The sequences that hold the elements of a and of b, each in its order.
Interleavings(a, b) ==
  IF a = << >> THEN { b }
  ELSE IF b = << >> THEN { a }
  ELSE { << Head(a) >> \o r : r \in Interleavings(Tail(a), b) }
         \cup { << Head(b) >> \o r : r \in Interleavings(a, Tail(b)) }

\* The delta sequences that deliver the calls, the deltas of different indices
\* interleaved in any order.
Deliveries(calls) ==
  IF Len(calls) = 1 THEN Fragments(calls[1], 0)
  ELSE UNION { Interleavings(f0, f1) :
                 f0 \in Fragments(calls[1], 0), f1 \in Fragments(calls[2], 1) }

\* The delivery of each call in one delta, in the order of the indices.
Whole(calls) ==
  [k \in 1..Len(calls) |->
     [index |-> k - 1, id |-> calls[k].id, type |-> calls[k].type,
      name |-> calls[k].name, arguments |-> calls[k].arguments]]

\* Lines 396-413 for one tool_call_delta d: a delta whose index is not below
\* the length of the list appends a record; any other one updates the record
\* at its index: id, type and name are replaced when given, the argument
\* string is extended.
OnToolCallDelta(tcd, d) ==
  IF Len(tcd) <= d.index
    THEN Append(tcd, [id |-> d.id, type |-> d.type, name |-> d.name,
                      arguments |-> d.arguments])
    ELSE [tcd EXCEPT ![d.index + 1] =
            [id |-> IF d.id # "" THEN d.id ELSE @.id,
             type |-> IF d.type # "" THEN d.type ELSE @.type,
             name |-> IF d.name # "" THEN d.name ELSE @.name,
             arguments |-> @.arguments \o d.arguments]]

RECURSIVE ReassembleFrom(_, _)
\* The list of records after the deltas ds, starting from the list tcd.
ReassembleFrom(tcd, ds) ==
  IF ds = << >> THEN tcd
  ELSE ReassembleFrom(OnToolCallDelta(tcd, Head(ds)), Tail(ds))

\* A response stream with tool calls begins: tool_calls_data = [] (line 379).
InitDeltas ==
  /\ sent_calls \in CallChoices
  /\ deltas \in Deliveries(sent_calls)
  /\ tool_calls_data = << >>

\* The next chunk of the stream carries a tool-call delta (lines 393-413).
RecvDelta ==
  /\ deltas # << >>
  /\ tool_calls_data' = OnToolCallDelta(tool_calls_data, Head(deltas))
  /\ deltas' = Tail(deltas)
  /\ UNCHANGED << reqNo, req, http, src, messages, is_connected, pc,
                  full_response, nText, nTools, buffer, fetch, pending_tasks,
                  produced, merged, failed, loop, exhausted, toolVars,
                  sent_calls, scanVars, cut, turn, connects >>

\* ----------------------------------- process_llama_stream: the buffer scan
\* Longest text before the tool-call pattern, longest text after it, and the
\* lines of a follow-up response.
MaxLead == 60

MaxTail == 3

MaxFollow == 2

\* Line 721: text is released once the buffer holds more than this.
ReleaseThreshold == 50

\* Lines 722-723: the number of characters of one release.
ReleaseSize == 25

\* A character: its class (a letter of a marker, of a tool name, of a JSON
\* object, of plain text) and its place in the text of its class.
Ch(c, k) == [c |-> c, k |-> k]

\* A text of n characters of class c.
Text(c, n) == [k \in 1..n |-> Ch(c, k)]

\* Line 625: the literals "I need to use " and " with these parameters: ".
NeedMarker == Text("I need to use ", 14)

WithMarker == Text(" with these parameters: ", 24)

\* A tool name and an argument object: `search` and `{"query":"x"}`.
ToolName == Text("name", 6)

JsonObject == << Ch("{", 1) >> \o Text("json", 11) \o << Ch("}", 1) >>

\* The pattern the enhanced system prompt asks for (line 577).
ToolPattern == NeedMarker \o ToolName \o WithMarker \o JsonObject

\* The pattern with an argument text that is never closed.
OpenPattern == NeedMarker \o ToolName \o WithMarker \o << Ch("{", 1) >> \o Text("json", 11)

\* The raw outputs considered: plain text; text, the pattern and text; text
\* and a pattern whose JSON object is not complete.
OutputChoices ==
  LET leads == {0, MaxLead \div 2, MaxLead}
  IN { Text("text", n) : n \in {0, MaxLead \div 2, MaxLead, MaxLead + MaxLead \div 2} }
       \cup { Text("text", n) \o ToolPattern \o Text("tail", MaxTail) : n \in leads }
       \cup { Text("text", n) \o OpenPattern : n \in leads }

\* Sizes of the chunks a backend delivers its output in.
ChunkSizes == {1, 7, MaxLead, 4 * MaxLead}

\* The text s cut into lines of n characters (the last one may be shorter).
Chunked(s, n) ==
  [k \in 1..((Len(s) + n - 1) \div n) |->
     SubSeq(s, (k - 1) * n + 1, IF k * n < Len(s) THEN k * n ELSE Len(s))]

\* The place of the first occurrence of m in s, or 0 (`m in s`, str.split).
IndexOf(s, m) ==
  LET hits == {p \in 1..(Len(s) - Len(m) + 1) : SubSeq(s, p, p + Len(m) - 1) = m}
  IN IF hits = {} THEN 0 ELSE CHOOSE p \in hits : \A q \in hits : p <= q

\* `m in s`
In(m, s) == IndexOf(s, m) # 0

\* s.split(m)[0]
SplitFirst(s, m) ==
  IF In(m, s) THEN SubSeq(s, 1, IndexOf(s, m) - 1) ELSE s

\* s.split(m)[1], for a text s that holds m: what lies between the first
\* occurrence of m and the next one (or the end).
SplitSecond(s, m) ==
  LET rest == SubSeq(s, IndexOf(s, m) + Len(m), Len(s))
  IN SplitFirst(rest, m)

\* Line 636: re.search(r'\{.*\}', s), greedy: from the first opening brace to
\* the last closing brace after it; << >> when there is no match.
BraceMatch(s) ==
  LET opens == {p \in 1..Len(s) : s[p].c = "{"}
      first == CHOOSE p \in opens : \A q \in opens : p <= q
      closes == {p \in 1..Len(s) : s[p].c = "}" /\ p > first}
      last == CHOOSE p \in closes : \A q \in closes : q <= p
  IN IF opens = {} \/ closes = {} THEN << >> ELSE SubSeq(s, first, last)

\* Line 638: json.loads accepts the matched text (an object of this alphabet:
\* braces around characters of a JSON text).
LoadsJson(t) == \A p \in 2..(Len(t) - 1) : t[p].c = "json"

\* Lines 625-641: what the scan of the buffer finds.
\*   none   no tool call (a marker is missing, no braces yet, or the text
\*          between the braces is not JSON: lines 637, 714-716)
\*   raise  the second marker is not behind the first: split(...)[1] raises
\*          IndexError (caught at line 717)
\*   call   a tool call with its name and its argument object
ScanBuffer(buf) ==
  IF ~(In(NeedMarker, buf) /\ In(WithMarker, buf)) THEN [kind |-> "none"]
  ELSE LET tool_parts == SplitSecond(buf, NeedMarker)
       IN IF ~In(WithMarker, tool_parts) THEN [kind |-> "raise"]
          ELSE LET params_text == SplitSecond(tool_parts, WithMarker)
                   json_match == BraceMatch(params_text)
               IN IF json_match # << >> /\ LoadsJson(json_match)
                    THEN [kind |-> "call", name |-> SplitFirst(tool_parts, WithMarker),
                          params |-> json_match]
                    ELSE [kind |-> "none"]

\* Something process_llama_stream yields: released text of the original
\* response, the tool marker, the result marker, text of the follow-up.
Yield(kind, text) == [kind |-> kind, text |-> text]

\* Mutant of Released: a release takes the characters and yields nothing.
ReleasedSilent(ys, buf) == ys

\* Lines 721-726: the chunk yielded when the buffer is over the threshold.
Released(ys, buf) ==
  IF Len(buf) > ReleaseThreshold
    THEN Append(ys, Yield("text", SubSeq(buf, 1, ReleaseSize)))
    ELSE ys

\* Lines 721-723: the buffer after the release.
Kept(buf) ==
  IF Len(buf) > ReleaseThreshold THEN SubSeq(buf, ReleaseSize + 1, Len(buf)) ELSE buf

\* Lines 731-735: `if buffer: yield buffer`.
Flushed(ys, buf) == IF buf # << >> THEN Append(ys, Yield("text", buf)) ELSE ys

\* Lines 590-592: full_prompt, the system prompt and the query.
FullPrompt == << Ch("full_prompt", 1) >>

\* Line 687: the annotation with the result of the tool.
ToolResultAnnotation == << Ch("tool_results", 1) >>

\* Line 687: follow_up_prompt.
FollowUpPrompt(buf) == FullPrompt \o buf \o ToolResultAnnotation

\* A response of the llama backend begins: full_response = "", buffer = ""
\* (lines 609-610); the backend will deliver one of the outputs, cut in lines.
InitLines ==
  /\ llama_output \in OutputChoices
  /\ response_content \in { Chunked(llama_output, n) : n \in ChunkSizes }
  /\ scan_buffer = << >>
  /\ scan_response = << >>
  /\ yielded = << >>
  /\ scan_pc = "scan"
  /\ follow_up_prompt = << >>
  /\ call_count = 0
  /\ follow_left = 0

\* What the steps of the scan leave alone.
ScanFrame ==
  UNCHANGED << reqNo, req, http, src, messages, is_connected, pc,
               full_response, nText, nTools, buffer, fetch, pending_tasks,
               produced, merged, failed, loop, exhausted, toolVars, fragVars,
               cut, turn, connects, llama_output >>

\* Lines 613-726 for one line of the response: its text is added to the
\* buffer, which is scanned; a tool call found gives the tool marker and the
\* call of the tool; otherwise a chunk is released if the buffer is long.
ReadLine ==
  /\ scan_pc = "scan"
  /\ response_content # << >>
  /\ LET buf == scan_buffer \o Head(response_content)
         found == ScanBuffer(buf)
     IN /\ response_content' = Tail(response_content)
        /\ scan_response' = scan_response \o Head(response_content)
        /\ IF found.kind = "call"
             THEN /\ call_count < MaxToolCalls
                  /\ yielded' = Append(yielded, Yield("invoked", found.name))
                  /\ scan_buffer' = buf
                  /\ scan_pc' = "tool"
                  /\ call_count' = call_count + 1
             ELSE /\ yielded' = Released(yielded, buf)
                  /\ scan_buffer' = Kept(buf)
                  /\ UNCHANGED << scan_pc, call_count >>
  /\ UNCHANGED << follow_up_prompt, follow_left >>
  /\ ScanFrame

\* Lines 650-696: call_tool returns, the result marker is yielded and the
\* follow-up request is posted; or it raises: the exception is caught at line
\* 717, a chunk is released if the buffer is long and the loop goes on.
ToolDone(ok) ==
  /\ scan_pc = "tool"
  /\ IF ok
       THEN /\ yielded' = Append(yielded, Yield("result", << >>))
            /\ follow_up_prompt' = FollowUpPrompt(scan_buffer)
            /\ scan_pc' = "follow"
            /\ follow_left' = MaxFollow
            /\ UNCHANGED scan_buffer
       ELSE /\ yielded' = Released(yielded, scan_buffer)
            /\ scan_buffer' = Kept(scan_buffer)
            /\ scan_pc' = "scan"
            /\ UNCHANGED << follow_up_prompt, follow_left >>
  /\ UNCHANGED << response_content, scan_response, call_count >>
  /\ ScanFrame

\* Lines 699-710: a line of the follow-up response is yielded as it is.
FollowLine ==
  /\ scan_pc = "follow"
  /\ follow_left > 0
  /\ yielded' = Append(yielded, Yield("continuation", << Ch("follow_up", follow_left) >>))
  /\ follow_left' = follow_left - 1
  /\ UNCHANGED << response_content, scan_buffer, scan_response, scan_pc, follow_up_prompt, call_count >>
  /\ ScanFrame

\* The follow-up request or its stream raises: caught at line 717, and the
\* loop over the original response goes on (lines 721-726).
FollowFails ==
  /\ scan_pc = "follow"
  /\ yielded' = Released(yielded, scan_buffer)
  /\ scan_buffer' = Kept(scan_buffer)
  /\ scan_pc' = "scan"
  /\ UNCHANGED << response_content, scan_response, follow_up_prompt, call_count, follow_left >>
  /\ ScanFrame

\* Line 713: the follow-up response has ended, `break` leaves the loop over
\* the original response; then lines 731-735.
FollowEnd ==
  /\ scan_pc = "follow"
  /\ follow_left = 0
  /\ yielded' = Flushed(yielded, scan_buffer)
  /\ scan_pc' = "done"
  /\ UNCHANGED << response_content, scan_buffer, scan_response, follow_up_prompt, call_count, follow_left >>
  /\ ScanFrame

\* The original response ends without a tool call in progress: lines 731-735.
StreamEnd ==
  /\ scan_pc = "scan"
  /\ response_content = << >>
  /\ yielded' = Flushed(yielded, scan_buffer)
  /\ scan_pc' = "done"
  /\ UNCHANGED << response_content, scan_buffer, scan_response, follow_up_prompt, call_count, follow_left >>
  /\ ScanFrame

\* The caller stops consuming the response (the client disconnects): the
\* pending `await asyncio.wait(...)` of merge_async_generators is cancelled and
\* the generators generate() and merge_async_generators unwind.  No finally or
\* except clause cancels the tasks of pending_tasks, and asyncio.wait leaves
\* the tasks it waits for alone: they stay scheduled on the event loop.
Abort ==
  /\ http = "streaming"
  /\ loop = LoopFree
  /\ pending_tasks # {}
  /\ http' = "aborted"
  /\ cut' = pc
  /\ UNCHANGED << reqNo, req, src, messages, is_connected, pc, full_response,
                  nText, nTools, buffer, fetch, pending_tasks, produced, merged,
                  failed, loop, exhausted, toolVars, fragVars, scanVars,
                  turn, connects >>

\* ------------------------------------------------------- specifications
\* Steps of the adapters that do not depend on what a backend or a tool sends.
AdapterSteps ==
  \/ \E i \in Sources : Start(i)
  \/ \E i \in Sources, ok \in BOOLEAN : Connect(i, ok)
  \/ \E i \in Sources, ok \in BOOLEAN : ToolsInfo(i, ok)
  \/ \E i \in Sources : Resume(i)

MergerSteps ==
  \/ Generate
  \/ \E i \in Sources : MergeTask(i)
  \/ MergeEnd

\* Backends that answer with text (or empty text) only: no tool-call indication.
PlainOutcomes == {"text", "empty", "hold", "end", "fail", "fail_tools"}

AllOutcomes == PlainOutcomes \cup {"tool", "tool_raw", "fail_release", "fail_cut"}

\* What call_tool can do: return, or raise.
AllToolOutcomes == {"ok", "fail", "fail_tools", "fail_release", "fail_cut"}

\* Spec: one request with any window list (up to all three backends at once),
\* backends answering with text, an end of stream or a failure.
Next ==
  \/ \E m \in MessageChoices, w \in WindowChoices : ChatStream(m, w, MaxRequests)
  \/ AdapterSteps
  \/ \E i \in Sources, o \in PlainOutcomes : Recv(i, o)
  \/ MergerSteps

Spec == Init /\ [][Next]_vars

\* Window lists of one or two backends.
ToolWindowChoices ==
  { GivenWindows(<<"anthropic">>),
    GivenWindows(<<"bogus", "openai">>),
    GivenWindows(<<"llama", "anthropic">>) }

\* SpecTools: one request to one or two backends, which may also ask for a
\* tool; the tool call returns or raises.
NextTools ==
  \/ \E w \in ToolWindowChoices : ChatStream("hi", w, MaxRequests)
  \/ AdapterSteps
  \/ \E i \in Sources, o \in AllOutcomes : Recv(i, o)
  \/ \E i \in Sources, o \in AllToolOutcomes : ToolReturn(i, o)
  \/ MergerSteps

\* The event loop runs every coroutine that is ready: the merger's steps are
\* fair.  Nothing makes a backend or a tool answer.
LiveSpec == Spec /\ WF_vars(MergerSteps)

SpecTools == Init /\ [][NextTools]_vars

\* One backend per request.
TurnWindowChoices ==
  { GivenWindows(<<"anthropic">>),
    GivenWindows(<<"openai">>),
    GivenWindows(<<"llama">>) }

\* SpecTurns: successive turns, each on one backend, with every outcome.
NextTurns ==
  \/ \E w \in TurnWindowChoices : ChatStream("hi", w, MaxTurns)
  \/ AdapterSteps
  \/ \E i \in Sources, o \in AllOutcomes : Recv(i, o)
  \/ \E i \in Sources, o \in AllToolOutcomes : ToolReturn(i, o)
  \/ MergerSteps

SpecTurns == Init /\ [][NextTurns]_vars

\* SpecAbort: one request to one or two backends with every outcome, which the
\* caller may abandon while it is streaming.
NextAbort ==
  \/ \E w \in ToolWindowChoices : ChatStream("hi", w, MaxRequests)
  \/ AdapterSteps
  \/ \E i \in Sources, o \in AllOutcomes : Recv(i, o)
  \/ \E i \in Sources, o \in AllToolOutcomes : ToolReturn(i, o)
  \/ MergerSteps
  \/ Abort

SpecAbort == Init /\ [][NextAbort]_vars

\* The window list of a request that arrives while another is being served.
OverlapWindowChoices == { GivenWindows(<<"anthropic">>) }

\* SpecOverlap: a request to one backend, and a second request, to the
\* anthropic backend, that arrives while the first is being served.
NextOverlap ==
  \/ \E w \in TurnWindowChoices : ChatStream("hi", w, MaxRequests)
  \/ \E w \in OverlapWindowChoices : ChatStreamOverlap(w)
  \/ AdapterSteps
  \/ \E i \in Sources, o \in AllOutcomes : Recv(i, o)
  \/ \E i \in Sources, o \in AllToolOutcomes : ToolReturn(i, o)
  \/ MergerSteps

SpecOverlap == Init /\ [][NextOverlap]_vars

\* Window lists that name a backend more than once.
RepeatedWindowChoices ==
  { GivenWindows(<<"anthropic", "anthropic">>),
    GivenWindows(<<"llama", "bogus", "llama">>),
    GivenWindows(<<"openai", "llama">>) }

\* SpecRepeat: one request whose window list may name a backend twice,
\* backends answering with text, an end of stream or a failure.
NextRepeat ==
  \/ \E w \in RepeatedWindowChoices : ChatStream("hi", w, MaxRequests)
  \/ AdapterSteps
  \/ \E i \in Sources, o \in PlainOutcomes : Recv(i, o)
  \/ MergerSteps

SpecRepeat == Init /\ [][NextRepeat]_vars

\* SpecFrag: the reassembly of the tool-call deltas of one response stream,
\* for every delivery of one or two tool calls.
InitFragStream == InitStream /\ InitDeltas /\ InitScan

SpecFrag == InitFragStream /\ [][RecvDelta]_vars

\* SpecScan: process_llama_stream over one response of the backend, for every
\* output and every size of its lines; the tool and the follow-up request
\* answer or raise.
InitScanStream == InitStream /\ InitFrag /\ InitLines

NextScan ==
  \/ ReadLine
  \/ \E ok \in BOOLEAN : ToolDone(ok)
  \/ FollowLine
  \/ FollowFails
  \/ FollowEnd
  \/ StreamEnd

SpecScan == InitScanStream /\ [][NextScan]_vars

\* ------------------------------------------------------------------ claims
\* Every source of the request has run to the end of its sequence.
AllSourcesEnded == http = "streaming" /\ \A i \in Live : pc[i] = "ended"

\* The kinds of the chunks of a sequence of envelopes.
ErrorCount(envs) == Cardinality({k \in 1..Len(envs) : envs[k].chunk.kind = "error"})

IsPrefix(a, b) == Len(a) <= Len(b) /\ SubSeq(b, 1, Len(a)) = a

\* C1: the merge ends only when no source is live any more (every source
\* sequence has ended and every task has been taken), and once every source
\* sequence has ended the merge does end.
C1_MergeEndsIffSourcesEnd ==
  /\ [](http = "closed" => (pending_tasks = {} /\ \A i \in Live : pc[i] = "ended"))
  /\ [][http' = "closed" /\ http = "streaming" => pending_tasks = {}]_vars
  /\ (AllSourcesEnded ~> (http = "closed"))

\* C1 witness: a merge over three sources has ended.
C1_Witness == http = "closed" /\ Len(src) = 3 /\ exhausted = {1, 2, 3}

\* C2: once a source is marked exhausted, the merged stream gets no further
\* item of it and no further fetch is issued for it while the request lasts.
C2_ExhaustedStaysSilent ==
  [][\A i \in Sources :
       (i \in exhausted /\ reqNo' = reqNo) =>
          /\ i \in exhausted'
          /\ merged'[i] = merged[i]
          /\ fetch'[i] = NoFetch
          /\ i \notin pending_tasks']_vars

\* C2 witness: a source is exhausted while a sibling's item is being merged.
C2_Witness ==
  \E i, j \in Live :
    /\ i \in exhausted
    /\ j \in pending_tasks
    /\ fetch[j].st = "item"
    /\ merged[j] # << >>

C4_FailureBecomesOneError ==
  /\ [](\A i \in Live :
          IF failed[i]
            THEN /\ ErrorCount(produced[i]) = 1
                 /\ produced[i][Len(produced[i])].chunk.kind = "error"
                 /\ produced[i][Len(produced[i])].model = response_map[src[i]]
            ELSE ErrorCount(produced[i]) = 0)
  /\ [](\A i \in Live :
          (http = "closed" /\ failed[i]) =>
             (i \in exhausted /\ ErrorCount(merged[i]) = 1))
  /\ [][\A i \in Live :
          (failed'[i] /\ ~failed[i]) =>
             (pending_tasks' = pending_tasks /\ http' = "streaming")]_vars

\* C4 witness: a failed source is exhausted and its Error event merged while a
\* sibling is still live.
C4_Witness ==
  \E i, j \in Live :
    /\ failed[i]
    /\ i \in exhausted
    /\ ErrorCount(merged[i]) = 1
    /\ j \in pending_tasks
    /\ pc[j] # "ended"

\* C5: first-ready scheduling: whenever the task of a live source has
\* completed with an item, the merger can take and emit it, whatever the other
\* sources are waiting for.
C5_ReadyItemCanBeEmitted ==
  \A i \in Live :
    (http = "streaming" /\ i \in pending_tasks /\ fetch[i].st = "item") => CanEmit(i)

\* C6: what the merged stream holds of a source is, at every moment, the
\* sequence its adapter produced, in that order, up to at most the one item in
\* flight, with no item twice; when the merge has ended it is all of it.
C6_SourceOrderKept ==
  \A i \in Sources :
    /\ IsPrefix(merged[i], produced[i])
    /\ Len(produced[i]) - Len(merged[i]) <= 1
    /\ \A k, l \in 1..Len(merged[i]) : merged[i][k] = merged[i][l] => k = l
    /\ http = "closed" => merged[i] = produced[i]

\* C6 witness: two sources have both been merged, one of them with a text, a
\* tool marker, a result marker and a continuation text, in that order.
C6_Witness ==
  \E i, j \in Live :
    /\ i # j
    /\ Len(merged[j]) >= 2
    /\ Len(merged[i]) >= 4
    /\ merged[i][1].chunk.kind = "text"
    /\ merged[i][2].chunk.kind = "invoked"
    /\ merged[i][3].chunk.kind = "result"
    /\ merged[i][4].chunk.kind = "text"

\* C7: a request whose non-empty window list holds no configured backend is
\* rejected (HTTP 400) at once: no task exists, no generator was created, no
\* Conversation or connection flag changed, nothing was streamed, and nothing
\* runs for it afterwards.
C7_NoValidWindowIsRejected ==
  /\ [][(reqNo' = reqNo + 1 /\ WindowsTruthy(req'.windows)
           /\ Filter(req'.windows.ids, clients) = << >>) =>
          /\ http' = "rejected"
          /\ messages' = messages
          /\ is_connected' = is_connected]_vars
  /\ [](http = "rejected" =>
          /\ pending_tasks = {}
          /\ \A i \in Sources :
               /\ fetch[i] = NoFetch
               /\ pc[i] = "none"
               /\ produced[i] = << >>
               /\ merged[i] = << >>)
  /\ [][http = "rejected" => reqNo' = reqNo + 1]_vars

\* C7 witness: a request with a message and only an unknown window id was
\* rejected.
C7_Witness ==
  /\ http = "rejected"
  /\ req.message = "hi"
  /\ req.windows = GivenWindows(<< "bogus" >>)

\* C8: a request with a message and an empty window list is rejected (HTTP
\* 400) and no adapter task is created for it.
C8_EmptyWindowListIsRejected ==
  (reqNo > 0 /\ req.message # "" /\ req.windows = GivenWindows(<< >>)) =>
     (http = "rejected" /\ pending_tasks = {})

\* No event of source i follows an Error event.
NothingAfterError(i) ==
  \A k \in 1..(Len(produced[i]) - 1) : produced[i][k].chunk.kind # "error"

\* C9: an adapter sequence carries at most one Error event and nothing after
\* it; a completed sequence of a failed turn ends with its one Error event, a
\* completed sequence of a turn that did not fail holds none.
C9_OneTerminalSignal ==
  \A i \in Live :
    /\ ErrorCount(produced[i]) <= 1
    /\ NothingAfterError(i)
    /\ pc[i] = "ended" =>
         IF failed[i]
           THEN /\ ErrorCount(produced[i]) = 1
                /\ produced[i][Len(produced[i])].chunk.kind = "error"
           ELSE ErrorCount(produced[i]) = 0

\* C9 witness: a failed turn's sequence has completed with at least three
\* events, the second being a tool marker (the failure came after a tool call).
C9_Witness ==
  \E i \in Live :
    /\ pc[i] = "ended"
    /\ failed[i]
    /\ Len(produced[i]) >= 3
    /\ produced[i][2].chunk.kind = "invoked"

\* Every Conversation only grows at its end.
AppendOnly == [][\A c \in clients : IsPrefix(messages[c], messages'[c])]_vars

\* C10 as stated: every Conversation only grows at its end and the
\* system-prompt message is the first message of each adapter's Conversation.
C10_SystemPromptFirstEverywhere ==
  /\ AppendOnly
  /\ [](\A c \in clients :
          messages[c] # << >> => messages[c][1] = Msg("system", SystemPrompt))

\* C10 amended: every Conversation only grows at its end; the Conversation of
\* the openai adapter starts with the system-prompt message forever; the
\* Conversations of the anthropic and llama adapters hold user and assistant
\* messages only (their system prompt is kept outside the message list).
C10_AppendOnlyConversation ==
  /\ AppendOnly
  /\ [](messages["openai"] # << >>
          /\ messages["openai"][1] = Msg("system", SystemPrompt))
  /\ [](\A c \in {"anthropic", "llama"} :
          \A k \in 1..Len(messages[c]) : messages[c][k].role \in {"user", "assistant"})

\* C10 witness: the second turn on the openai adapter has completed after a
\* first turn on it.
C10_Witness ==
  /\ reqNo = 2
  /\ http = "closed"
  /\ src = << "openai" >>
  /\ Len(messages["openai"]) >= 7

\* A message that carries a tool call, or the result of one.
IsToolCall(m) == m.content # << >> /\ m.content[1].kind = "tool_call"

IsToolResult(m) == m.content # << >> /\ m.content[1].kind = "tool_result"

ToolCallsIn(ms) == {k \in 1..Len(ms) : IsToolCall(ms[k])}

ToolResultsIn(ms) == {k \in 1..Len(ms) : IsToolResult(ms[k])}

\* C11: once a tool call was detected and the tool has returned its result,
\* the adapter's Conversation holds exactly one assistant tool-call message
\* and exactly one tool-result message after it, and the result message is the
\* last message when the continuation begins (no continuation text before it).
C11_ToolRoundTripInConversation ==
  \A i \in Live :
    pc[i] \in {"recv2", "y_text2"} =>
      LET ms == messages[src[i]]
      IN /\ Cardinality(ToolCallsIn(ms)) = 1
         /\ Cardinality(ToolResultsIn(ms)) = 1
         /\ \A k \in ToolCallsIn(ms), l \in ToolResultsIn(ms) : k < l
         /\ IsToolResult(ms[Len(ms)])

RECURSIVE TextOf(_)
\* The text deltas of a sequence of envelopes, in order, without the
\* tool-bracket annotations.
TextOf(envs) ==
  IF envs = << >> THEN << >>
  ELSE (IF Head(envs).chunk.kind = "text" THEN << Head(envs).chunk >> ELSE << >>)
         \o TextOf(Tail(envs))

\* C12: when a turn has ended without a failure, the last message of the
\* Conversation is the assistant message whose content is the concatenation of
\* the text deltas of the turn, in order, without the ToolInvoked and
\* ToolResult markers, and the sequence holds no Error event.
C12_AssistantMessageIsTheText ==
  \A i \in Live :
    (pc[i] = "ended" /\ ~failed[i]) =>
      LET ms == messages[src[i]]
      IN /\ ms[Len(ms)] = Msg("assistant", TextOf(produced[i]))
         /\ ErrorCount(produced[i]) = 0

\* The assistant messages of a list.
AssistantIn(ms) == {k \in 1..Len(ms) : ms[k].role = "assistant"}

\* The text of message m contains the piece of text t.
Contains(m, t) == \E k \in 1..Len(m.content) : m.content[k] = t

ToolCallFailed(i) ==
  error_log[i] # << >> /\ error_log[i][Len(error_log[i])].at = "tool"

\* C14: when call_tool has raised, the turn is not aborted: no Error event is
\* produced for it, a tool-result message is in the Conversation, and the
\* adapter has gone on to the continuation request.
C14_ToolFailureContinues ==
  \A i \in Live :
    ToolCallFailed(i) =>
      /\ ~failed[i]
      /\ ErrorCount(produced[i]) = 0
      /\ ToolResultsIn(messages[src[i]]) # {}
      /\ pc[i] \in {"recv2", "y_text2", "y_flush", "ended"}

\* C15: once the caller has aborted the turn, no anext task of any source is
\* still pending on the event loop.
C15_AbortCancelsTasks ==
  http = "aborted" => \A i \in Live : fetch[i].st # "running"

\* The kinds of the events of a sequence of envelopes.
Kinds(envs) == {envs[k].chunk.kind : k \in 1..Len(envs)}

\* No task of the request is running or waiting any more.
Quiescent == \A i \in Live : fetch[i].st # "running"

\* The turn of source i was cut while its adapter was suspended in the tool
\* call: its ToolInvoked event was emitted and no ToolResult event; a text
\* delta had been emitted first.
CutInToolCall(i) ==
  /\ http = "aborted"
  /\ cut[i] = "tool"
  /\ merged[i] # << >>
  /\ merged[i][1].chunk.kind = "text"
  /\ "invoked" \in Kinds(merged[i])
  /\ "result" \notin Kinds(merged[i])

\* C16: when a turn was cancelled between ToolInvoked and ToolResult and
\* everything has come to rest, the Conversation of that source holds an
\* assistant message with the text emitted before the cancellation; and after
\* the cancellation no event of any source is emitted.
C16_CancelledToolCallKeepsText ==
  /\ [](\A i \in Live :
          (CutInToolCall(i) /\ Quiescent) =>
             \E k \in AssistantIn(messages[src[i]]) :
                Contains(messages[src[i]][k], merged[i][1].chunk))
  /\ [][http = "aborted" => merged' = merged]_vars

\* C17: when the deltas of a stream have all arrived, in whatever order the
\* deltas of different indices were interleaved, the records (id, type, name
\* and argument string per index) are those that the delivery of each call in
\* one delta gives.
C17_ReassemblyMatchesWholeDelivery ==
  deltas = << >> => tool_calls_data = ReassembleFrom(<< >>, Whole(sent_calls))

\* C18: when the argument string of a tool call of the openai adapter does
\* not parse as JSON, call_tool is given the payload that wraps the raw text
\* in its single field, the tool marker is produced and the tool is called;
\* the turn has not failed up to the call, and whatever failure follows was
\* raised by the call or after it.
C18_MalformedArgumentsAreWrapped ==
  \A i \in Live :
    (src[i] = "openai" /\ tool_input[i].form = "wrapped") =>
      /\ tool_input[i].value = BadJson
      /\ "invoked" \in Kinds(produced[i])
      /\ pc[i] \notin {"recv1", "y_text1"}
      /\ pc[i] \in {"y_invoked", "tool"} =>
           (~failed[i] /\ ErrorCount(produced[i]) = 0 /\ error_log[i] = << >>)
      /\ \A k \in 1..Len(error_log[i]) : error_log[i][k].at \in {"tool", "recv2", "recvF"}

\* C18 witness: the openai adapter is suspended in call_tool with the wrapped
\* raw text as arguments.
C18_Witness ==
  \E i \in Live :
    /\ src[i] = "openai"
    /\ pc[i] = "tool"
    /\ tool_input[i] = [form |-> "wrapped", value |-> BadJson]

\* The openai adapter of source i is in its retry without tools.
InRetry(i) == pc[i] \in {"recvF", "y_textF"}

\* C19: in the openai adapter the request is retried without tools only after
\* a failure whose text mentions tools, once, and before any Error event; a
\* retry that succeeds leaves no Error event, a retry that fails is followed
\* by one Error event, and a failure whose text does not mention tools is
\* followed by one Error event without a retry.
C19_RetryOnceWithoutTools ==
  \A i \in Live :
    src[i] = "openai" =>
      LET log == error_log[i]
      IN /\ Len(log) <= 2
         /\ InRetry(i) =>
              (Len(log) = 1 /\ log[1].text = "tools" /\ ErrorCount(produced[i]) = 0)
         /\ (Len(log) = 1 /\ log[1].text = "tools") =>
              (~failed[i] /\ ErrorCount(produced[i]) = 0 /\ (InRetry(i) \/ pc[i] = "ended"))
         /\ Len(log) = 2 =>
              /\ log[1].text = "tools"
              /\ log[2].at = "recvF"
              /\ failed[i]
              /\ ErrorCount(produced[i]) = 1
         /\ (Len(log) >= 1 /\ log[1].text = "plain") =>
              (Len(log) = 1 /\ ~InRetry(i) /\ failed[i] /\ ErrorCount(produced[i]) = 1)

\* C19 witness: a turn of the openai adapter has ended after a failure that
\* mentioned tools in the first stream and a failure of the retry.
C19_Witness ==
  \E i \in Live :
    /\ src[i] = "openai"
    /\ pc[i] = "ended"
    /\ Len(error_log[i]) = 2
    /\ error_log[i][1] = Raised("recv1", "fail_tools")
    /\ error_log[i][2].at = "recvF"

\* C20: in the llama adapter a detected pattern gives the tool marker and a
\* call of the tool with the argument object of the pattern, and while the
\* buffer still holds a pattern that was detected, no further tool call is
\* started in the turn.
C20_PatternTriggersOnce ==
  /\ [](\A i \in Live :
          (src[i] = "llama" /\ pc[i] \in {"y_invoked", "tool"}) =>
            (pattern[i] /\ tool_input[i] = [form |-> "parsed", value |-> GoodJson]))
  /\ [][\A i \in Live :
          (src[i] = "llama" /\ pattern[i] /\ reqNo' = reqNo) => nTools'[i] = nTools[i]]_vars

\* The sources whose generator is suspended in call_tool on the adapter of
\* client c: the tool invocations of that adapter that are in flight.
InFlight(c) == {i \in Live : src[i] = c /\ pc[i] = "tool"}

\* C21: at any time at most one tool invocation of an adapter instance is in
\* flight, whatever requests the adapter serves and however they interleave.
C21_OneToolInFlight ==
  \A c \in clients : Cardinality(InFlight(c)) <= 1

\* The continuation requests source i has issued in its turn: each one is
\* issued with one more tool-result message in its list.
Continuations(i) == Cardinality(ToolResultsIn(context[i]))

\* C22: in one turn an adapter dispatches at most one tool call and issues at
\* most one continuation request, the continuation request follows the tool
\* result, and while the stream of the continuation is read no tool call is
\* dispatched.
C22_OneResolveCycle ==
  /\ [](\A i \in Live : nTools[i] <= 1 /\ Continuations(i) <= 1)
  /\ [][\A i \in Live :
          (pc[i] = "y_result" /\ pc'[i] # pc[i] /\ reqNo' = reqNo) => pc'[i] = "recv2"]_vars
  /\ [][\A i \in Live :
          (pc[i] \in {"recv2", "y_text2"} /\ reqNo' = reqNo) =>
            (nTools'[i] = nTools[i] /\ pc'[i] \notin {"y_invoked", "tool"})]_vars

\* The message m is in the list ms.
Carries(ms, m) == \E j \in 1..Len(ms) : ms[j] = m

\* C23: the message list of the request an adapter sends to its backend at the
\* start of a turn carries every message its Conversation holds, those of the
\* earlier turns included.
C23_RequestCarriesConversation ==
  \A i \in Live :
    pc[i] = "recv1" =>
      \A k \in 1..Len(messages[src[i]]) : Carries(context[i], messages[src[i]][k])

\* C24: mcp_brave_server.connect() returns at most once for an adapter (no
\* turn disconnects it), and while the adapter's connection flag is set no
\* step connects it again, so the tool list its connect loaded stays.
C24_ConnectOnce ==
  /\ [](\A c \in clients : connects[c] <= 1)
  /\ [][\A c \in clients : is_connected[c] => connects'[c] = connects[c]]_vars

\* C25: a step of the turn of one source changes the Conversation, the
\* connection flag and the tool list of no other backend's adapter.
C25_OtherAdaptersUntouched ==
  [][\A i \in Live :
       (pc'[i] # pc[i] /\ reqNo' = reqNo) =>
         \A c \in clients \ {src[i]} :
           /\ messages'[c] = messages[c]
           /\ is_connected'[c] = is_connected[c]
           /\ connects'[c] = connects[c]]_vars

\* C25 witness: in a request to the three backends the anthropic turn has
\* connected, loaded its tools and ended, and the llama and openai adapters
\* are as they were before the request.
C25_Witness ==
  /\ src = clients_keys
  /\ pc[2] = "ended"
  /\ is_connected = [c \in clients |-> c = "anthropic"]
  /\ connects = [c \in clients |-> IF c = "anthropic" THEN 1 ELSE 0]
  /\ Len(messages["anthropic"]) = 2
  /\ \A c \in {"llama", "openai"} : messages[c] = InitialMessages(c)

\* C26: in every Conversation the message after a user message is a message
\* of the same turn: its assistant message, or the user message once more (the
\* entry points that append it twice); no message of another turn comes
\* between a user message and the answer to it.
C26_TurnsNotInterleaved ==
  \A c \in clients :
    LET ms == messages[c]
    IN \A k \in 1..(Len(ms) - 1) :
         ms[k].role = "user" => (ms[k + 1].role = "assistant" \/ ms[k + 1] = ms[k])

\* C27: every envelope of the merged stream that came from the generator of
\* a source carries the label of that source's backend, the three backends
\* have three different labels, and so no envelope carries the label of
\* another backend.
C27_EnvelopeCarriesItsSource ==
  /\ \A c, d \in clients : response_map[c] = response_map[d] => c = d
  /\ \A i \in Live :
       \A k \in 1..Len(merged[i]) :
         /\ merged[i][k].model = response_map[src[i]]
         /\ merged[i][k] = produced[i][k]
         /\ \A c \in clients \ {src[i]} : merged[i][k].model # response_map[c]

\* C27 witness: the merged stream holds envelopes of the three backends.
C27_Witness ==
  /\ src = clients_keys
  /\ \A i \in Live : merged[i] # << >>

\* The places of the Conversation of source i's adapter that hold the user
\* message of its turn.
UserPlaces(i) ==
  {k \in 1..Len(messages[src[i]]) : messages[src[i]][k] = UserMessageOf(i)}

\* C28: a turn that has not started has not appended its user message; once
\* it has started the Conversation holds that message exactly once; no event
\* of the turn is produced before it, and the assistant message of the turn
\* comes right after it.
C28_UserMessageOnce ==
  \A i \in Live :
    /\ pc[i] \in {"none", "new"} => (UserPlaces(i) = {} /\ produced[i] = << >>)
    /\ pc[i] \notin {"none", "new"} => Cardinality(UserPlaces(i)) = 1
    /\ pc[i] = "ended" =>
         LET ms == messages[src[i]]
         IN ms[Len(ms)].role = "assistant" /\ (Len(ms) - 1) \in UserPlaces(i)

\* C29: while the merge runs, every source that has not left the live set
\* has one fetch outstanding (its task is in pending_tasks), a source that
\* has left it has none, and a fetch is issued for a source only as its first
\* one or when its previous fetch has completed with an item.
C29_OneFetchPerLiveSource ==
  /\ [](http = "streaming" =>
          \A i \in Sources :
            /\ i \in pending_tasks <=> fetch[i] # NoFetch
            /\ i \in pending_tasks <=> (i \in Live /\ i \notin exhausted))
  /\ [][\A i \in Sources :
          (fetch'[i] = Running /\ fetch[i] # Running) =>
            \/ fetch[i].st = "item"
            \/ fetch[i] = NoFetch /\ pc'[i] = "new"]_vars

\* C29 witness: the second fetch of a source is outstanding after its first
\* item was merged, while another source has left the live set.
C29_Witness ==
  \E i, j \in Live :
    /\ http = "streaming"
    /\ Len(merged[i]) = 1
    /\ fetch[i] = Running
    /\ j \in exhausted

\* The positions of the tool-resolve phase and of the continuation.
Resolving == {"y_invoked", "tool", "y_result"}

Continuing == {"recv2", "y_text2"}

\* C30: the anthropic adapter enters tool-resolve only in the step that reads
\* the tool-use marker from its first stream (never at a yielded text delta,
\* from the continuation, or after the stream has ended otherwise); after
\* that no delta of the first stream follows; and the continuation request
\* is sent with a system prompt other than the one of the first request.
C30_ToolUseOnlyAtStopMarker ==
  /\ [][\A i \in Live :
          (src[i] = "anthropic" /\ reqNo' = reqNo) =>
            /\ (nTools'[i] # nTools[i] \/ (pc'[i] \in Resolving /\ pc[i] \notin Resolving)) =>
                 (pc[i] = "recv1" /\ pc'[i] = "y_invoked" /\ nTools'[i] = nTools[i] + 1)
            /\ pc[i] \in Resolving \cup Continuing => pc'[i] \notin {"recv1", "y_text1"}]_vars
  /\ [](\A i \in Live :
          src[i] = "anthropic" =>
            /\ pc[i] \in {"recv1", "y_text1"} => system_sent[i] = SystemPrompt
            /\ pc[i] \in Continuing =>
                 (system_sent[i] = AfterToolSystemPrompt /\ system_sent[i] # SystemPrompt))

\* C30 witness: the anthropic adapter reads the stream of its continuation
\* request after a text delta, the tool marker and the result marker.
C30_Witness ==
  \E i \in Live :
    /\ src[i] = "anthropic"
    /\ pc[i] = "recv2"
    /\ nTools[i] = 1
    /\ Kinds(produced[i]) = {"text", "invoked", "result"}

\* C31: in the llama adapter the prompt of the follow-up request is the
\* original prompt, then the output of the original response received so far,
\* then the annotation with the tool result; and once the follow-up response
\* has been streamed to its end, no further line of the original response is
\* read.
C31_ContinuationCarriesPartialOutput ==
  /\ [](scan_pc = "follow" =>
          follow_up_prompt = FullPrompt \o scan_response \o ToolResultAnnotation)
  /\ [][(scan_pc = "follow" /\ scan_pc' = "done") =>
          (response_content' = response_content /\ scan_response' = scan_response)]_vars
  /\ [][scan_pc = "done" => response_content' = response_content]_vars

RECURSIVE TextYielded(_)
\* The concatenation of the original text the yields ys released.
TextYielded(ys) ==
  IF ys = << >> THEN << >>
  ELSE (IF Head(ys).kind = "text" THEN Head(ys).text ELSE << >>) \o TextYielded(Tail(ys))

\* C32: while the llama adapter has detected no tool call, a chunk is
\* released only by a line that brings the buffer above the threshold, the
\* chunk is the first ReleaseSize characters of the buffer, what was released
\* followed by what the buffer holds is the output received so far, and when
\* the stream has ended what was released is the raw output of the backend.
C32_ReleasedTextIsTheOutput ==
  /\ [][(call_count' = 0 /\ scan_pc' = "scan" /\ yielded' # yielded) =>
          LET buf == scan_buffer \o Head(response_content)
          IN /\ Len(buf) > ReleaseThreshold
             /\ yielded' = Append(yielded, Yield("text", SubSeq(buf, 1, ReleaseSize)))
             /\ Len(yielded'[Len(yielded')].text) = ReleaseSize]_vars
  /\ [](call_count = 0 =>
          /\ scan_pc = "scan" => TextYielded(yielded) \o scan_buffer = scan_response
          /\ scan_pc = "done" => TextYielded(yielded) = llama_output)

\* C32 witness: a stream without a detected tool call has ended after two
\* releases and the flush of the remainder.
C32_Witness ==
  /\ scan_pc = "done"
  /\ call_count = 0
  /\ Len(yielded) >= 3
  /\ Len(yielded[Len(yielded)].text) # ReleaseSize

\* C33: in a turn that is not cancelled, the Conversation of the adapter ends
\* with the user message of the turn until the turn appends its assistant
\* message, which it does once, on success and on failure alike; when the
\* turn has ended the assistant message is the last message and the user
\* message of the turn stands right before it.
C33_OneAssistantMessagePerTurn ==
  \A i \in Live :
    LET ms == messages[src[i]]
    IN /\ pc[i] \in {"ended", "y_error"} =>
            /\ Len(ms) >= 2
            /\ ms[Len(ms)].role = "assistant"
            /\ ms[Len(ms) - 1] = UserMessageOf(i)
       /\ pc[i] \notin {"none", "new", "ended", "y_error"} =>
            /\ Len(ms) >= 1
            /\ ms[Len(ms)] = UserMessageOf(i)

\* C33 witness: the second turn of an adapter has ended with a failure after
\* a first turn that succeeded: its Conversation holds two assistant messages.
C33_Witness ==
  \E i \in Live :
    /\ pc[i] = "ended"
    /\ failed[i]
    /\ turn[i] = 2
    /\ Cardinality(AssistantIn(messages[src[i]])) = 2
    /\ messages[src[i]][Len(messages[src[i]])].content[1].kind = "error"

\* The ToolInvoked event at place k of the events evs has its ToolResult: a
\* result event follows it before any other ToolInvoked event.
HasResult(evs, k) ==
  \E j \in (k + 1)..Len(evs) :
    /\ evs[j].chunk.kind = "result"
    /\ \A l \in (k + 1)..(j - 1) : evs[l].chunk.kind # "invoked"

\* C34: when the sequence of a source has ended in a turn that was not
\* cancelled, every ToolInvoked event it produced is followed by its
\* ToolResult event.
C34_InvokedHasItsResult ==
  \A i \in Live :
    pc[i] = "ended" =>
      \A k \in 1..Len(produced[i]) :
        produced[i][k].chunk.kind = "invoked" => HasResult(produced[i], k)

\* C35: when the llama adapter has read a response whose raw output holds a
\* complete tool-call pattern with a JSON object, it has called the tool
\* once, whatever the size of the lines the output was delivered in.
C35_DetectionIgnoresChunking ==
  (scan_pc = "done" /\ In(ToolPattern, llama_output)) => call_count = 1

\* C36: in what the llama adapter yields, no text of the original response
\* comes after the result marker or after text of the continuation.
C36_BufferedTextNotAfterResult ==
  \A j, k \in 1..Len(yielded) :
    (j < k /\ yielded[j].kind \in {"result", "continuation"}) => yielded[k].kind # "text"

\* The sources of the request that run on the adapter of backend c: the
\* process_client_messages tasks chat_stream started for it.
TasksOf(c) == {i \in Live : src[i] = c /\ pc[i] # "none"}

\* The identifiers of the window list of the request.
Requested == {req.windows.ids[k] : k \in 1..Len(req.windows.ids)}

\* C37: when the window list of the request names a configured backend, the
\* tasks started for the request are one for each configured backend the list
\* names, none for any other identifier or backend, and never two on the
\* adapter of one backend.
C37_OneTaskPerRequestedBackend ==
  (http = "streaming" /\ WindowsTruthy(req.windows)) =>
    /\ \A i \in Live : src[i] \in clients \cap Requested
    /\ \A c \in clients :
         Cardinality(TasksOf(c)) = IF c \in Requested THEN 1 ELSE 0

\* C38: the openai adapter starts its retry without tools only in a turn that
\* has produced no event yet.
C38_RetryOnlyBeforeAnyEvent ==
  [][\A i \in Live :
       (src[i] = "openai" /\ reqNo' = reqNo /\ ~InRetry(i) /\ pc'[i] = "recvF") =>
         produced[i] = << >>]_vars

\* C39: no envelope that a source produced, and none in the merged stream,
\* carries an empty chunk.
C39_NoEmptyEnvelope ==
  \A i \in Live :
    /\ \A k \in 1..Len(produced[i]) : produced[i][k].chunk.kind # "empty"
    /\ \A k \in 1..Len(merged[i]) : merged[i][k].chunk.kind # "empty"

\* C39 witness: the stream of a source has ended after an empty delta, with
\* no event of that source produced or merged.
C39_Witness ==
  \E i \in Live :
    /\ pc[i] = "ended"
    /\ nText[i] = 1
    /\ ~failed[i]
    /\ produced[i] = << >>
    /\ i \in exhausted

\* The turn of source i failed in connect_mcp.
ConnectFailed(i) == error_log[i] # << >> /\ error_log[i][1] = Raised("connect", "fail")

\* C40: the connection flag of an adapter is set only when a connect has
\* returned for it; a turn whose connect failed leaves the flag unset, yields
\* one error text, appends the assistant message with it, sends no request
\* to the backend and calls no tool; and a turn that starts while the flag
\* is unset attempts the connect.
C40_FlagOnlyAfterConnect ==
  /\ [](\A c \in clients : is_connected[c] => connects[c] >= 1)
  /\ [](\A i \in Live :
          ConnectFailed(i) =>
            /\ ~is_connected[src[i]]
            /\ pc[i] \in {"y_error", "ended"}
            /\ Len(produced[i]) = 1
            /\ produced[i][1].chunk.kind = "error"
            /\ messages[src[i]][Len(messages[src[i]])] = Msg("assistant", << produced[i][1].chunk >>)
            /\ context[i] = << >>
            /\ system_sent[i] = << >>
            /\ tool_input[i] = NoInput
            /\ nTools[i] = 0)
  /\ [][\A i \in Live :
          (pc[i] = "new" /\ pc'[i] # "new" /\ reqNo' = reqNo) =>
            (pc'[i] = "connect" <=> ~is_connected[src[i]])]_vars
  /\ [][\A c \in clients :
          (is_connected'[c] /\ ~is_connected[c]) =>
            \E i \in Live : src[i] = c /\ pc[i] = "connect" /\ connects'[c] = connects[c] + 1]_vars

\* C40 witness: the second turn of an adapter waits in connect_mcp after a
\* first turn that ended with a failed connect.
C40_Witness ==
  \E i \in Live :
    /\ turn[i] = 2
    /\ pc[i] = "connect"
    /\ ~is_connected[src[i]]
    /\ Cardinality(AssistantIn(messages[src[i]])) = 1
    /\ \E k \in AssistantIn(messages[src[i]]) : messages[src[i]][k].content[1].kind = "error"

====
